---- MODULE Spec2Model ----
(***************************************************************************)
(* Model of the revenue converter contract (src/src/contract.rs,           *)
(* src/src/state.rs, src/src/msg.rs).                                      *)
(*                                                                         *)
(* The contract keeps a Config item, an ordered ACTIONS map keyed by denom *)
(* and a LAST item (the cursor).  Each handler call is one atomic step:    *)
(* an Err result or a panic discards every write of the call.  A Run that  *)
(* issues the external operation registers it reply-always; the host then  *)
(* calls reply, and an Err/panic of reply discards the whole crank.        *)
(*                                                                         *)
(* Denoms are strings in the code, ordered bytewise by the map.  They are   *)
(* modelled by the integers 1..NumDenoms in that order.                    *)
(* Option<T> is modelled by a sequence of length 0 (None) or 1 (Some).     *)
(***************************************************************************)
EXTENDS Integers, Sequences, FiniteSets, TLC

\* ------------------------------------------------------------------ bounds

\* Number of distinct denoms (action keys and swept denoms).
NumDenoms == 3
\* Largest balance the bank query returns.
MaxBalance == 3
\* Longest configured target_addresses list.
MaxTargets == 3
\* Length of the window of selections kept by the history variable.
MaxHist == 4

Denoms == 1..NumDenoms
Balances == 0..MaxBalance

\* Identities that call the contract or are stored as owner / executor.
Addrs == {"owner", "executor", "other"}
\* Target contracts and payloads of actions.
Contracts == {"fin", "bow"}
Msgs == {"swap", "claim"}
\* Outcomes of the external operation that the host hands to reply.
SubMsgResults == {"ok", "err"}
\* Target weights (u8): small ones and ones whose sums pass 255.
Weights == {0, 1, 2, 255}

None == << >>
Some(x) == << x >>

\* --------------------------------------------------------------- variables

VARIABLES
    config,         \* CONFIG: owner, executor, target_denoms, target_addresses
    actions,        \* ACTIONS: denom -> (contract, limit, msg), a partial map
    last,           \* LAST: Option<denom>, the cursor
    overflow_checks,\* whether the build traps integer overflow (else it wraps)
    phase,          \* "idle", or "reply" while a reply-always submessage is out
    snapshot,       \* LAST as it was before the crank that is awaiting reply
    response,       \* what the last handler call returned
    selected        \* denoms selected by successful cranks since the ledger
                    \* last changed (the last MaxHist of them)

vars == << config, actions, last, overflow_checks, phase, snapshot, response,
           selected >>

\* ----------------------------------------------------------- arithmetic

\* Decimal::DECIMAL_PLACES of cosmwasm_std: a Decimal holds 18 fractional
\* digits.
DECIMAL_PLACES == 18

\* The remainders of the long division w / tw, digit by digit.
RECURSIVE RatioRem(_, _, _)
RatioRem(w, tw, i) ==
    IF i = 0 THEN w % tw ELSE (RatioRem(w, tw, i - 1) * 10) % tw

\* Decimal::from_ratio(w, tw) for tw > 0: floor(w * 10^18 / tw) atomics,
\* held as the integer part and the 18 fractional digits (most significant
\* first).
from_ratio(w, tw) ==
    [ int  |-> w \div tw,
      frac |-> [ i \in 1..DECIMAL_PLACES |->
                   (RatioRem(w, tw, i - 1) * 10) \div tw ] ]

\* The carry out of digit i when the fractional digits are multiplied by b.
RECURSIVE FracCarry(_, _, _)
FracCarry(b, frac, i) ==
    IF i > DECIMAL_PLACES THEN 0
    ELSE (b * frac[i] + FracCarry(b, frac, i + 1)) \div 10

\* Uint128::mul_floor(b, ratio): floor(b * atomics / 10^18).
mul_floor(b, ratio) == b * ratio.int + FracCarry(b, ratio.frac, 1)

min(a, b) == IF a < b THEN a ELSE b

\* ------------------------------------------------------------ state.rs

\* Action::set that keeps the entry a denom already has (an insert in place
\* of an upsert).
Action_set_insert_only(acts, action) ==
    [ d \in DOMAIN acts \cup {action.denom} |->
        IF d \in DOMAIN acts THEN acts[d]
        ELSE [contract |-> action.contract, limit |-> action.limit,
              msg |-> action.msg] ]

\* Action::set: ACTIONS.save(denom, (contract, limit, msg)), an upsert.
Action_set(acts, action) ==
    [ d \in DOMAIN acts \cup {action.denom} |->
        IF d = action.denom
        THEN [contract |-> action.contract, limit |-> action.limit,
              msg |-> action.msg]
        ELSE acts[d] ]

\* Action::unset: ACTIONS.remove(denom), no error when absent.
Action_unset(acts, denom) == [ d \in DOMAIN acts \ {denom} |-> acts[d] ]

\* The smallest key of a non-empty set of keys (Order::Ascending, take(1)).
first_key(keys) == CHOOSE k \in keys : \A j \in keys : k <= j

\* next_key with an inclusive lower bound (Bound::inclusive for
\* Bound::exclusive): the cursor's own key is found again.
next_key_inclusive(acts, lst) ==
    LET after == IF lst = None THEN DOMAIN acts
                 ELSE { d \in DOMAIN acts : d >= lst[1] }
    IN  IF after # {} THEN Some(CHOOSE k \in after : \A j \in after : k <= j)
        ELSE None

\* The key Action::next selects: the first key of ACTIONS after the
\* exclusive bound LAST (no bound when LAST is absent), else the first key
\* of the whole map, else nothing.
next_key(acts, lst) ==
    LET after == IF lst = None THEN DOMAIN acts
                 ELSE { d \in DOMAIN acts : d > lst[1] }
    IN  IF after # {} THEN Some(first_key(after))
        ELSE IF DOMAIN acts # {} THEN Some(first_key(DOMAIN acts))
        ELSE None

\* Action::load: the Action built from the map entry (LAST is saved by the
\* caller of this operator, see Action_next).
Action_load(acts, denom) ==
    [denom |-> denom, contract |-> acts[denom].contract,
     limit |-> acts[denom].limit, msg |-> acts[denom].msg]

\* Action::next whose load does not save LAST.
Action_next_no_save(acts, lst) ==
    LET k == next_key(acts, lst)
    IN  IF k = None THEN [action |-> None, last |-> lst]
        ELSE [action |-> Some(Action_load(acts, k[1])), last |-> lst]

\* Action::next: the selected Action (or None) and LAST after the call.
Action_next(acts, lst) ==
    LET k == next_key(acts, lst)
    IN  IF k = None THEN [action |-> None, last |-> lst]
        ELSE [action |-> Some(Action_load(acts, k[1])), last |-> k]

\* Action::execute that attaches the whole balance (the cap by self.limit
\* forgotten).
Action_execute_uncapped(action, coin) ==
    IF coin.denom # action.denom THEN [err |-> "Invalid Denom", msg |-> None]
    ELSE IF min(coin.amount, action.limit) = 0 THEN [err |-> "", msg |-> None]
    ELSE [err |-> "",
          msg |-> Some([contract_addr |-> action.contract,
                        msg |-> action.msg,
                        denom |-> coin.denom,
                        amount |-> coin.amount])]

\* Action::execute without the comparison of the denoms.
Action_execute_any_denom(action, coin) ==
    LET total == min(coin.amount, action.limit)
    IN  IF total = 0 THEN [err |-> "", msg |-> None]
        ELSE [err |-> "",
              msg |-> Some([contract_addr |-> action.contract,
                            msg |-> action.msg,
                            denom |-> coin.denom,
                            amount |-> total])]

\* Action::execute(self, amount: Coin): Err on a foreign denom, no message
\* when min(amount, limit) is zero, else one WasmMsg::Execute with funds
\* coins(total, denom).
Action_execute(action, coin) ==
    IF coin.denom # action.denom THEN [err |-> "Invalid Denom", msg |-> None]
    ELSE LET total == min(coin.amount, action.limit)
         IN  IF total = 0 THEN [err |-> "", msg |-> None]
             ELSE [err |-> "",
                   msg |-> Some([contract_addr |-> action.contract,
                                 msg |-> action.msg,
                                 denom |-> coin.denom,
                                 amount |-> total])]

\* --------------------------------------------------------- distribution

\* config.target_addresses.iter().fold(0, |a, e| e.1 + a) in u8: the sum of
\* the first i weights, or None when an addition passes 255 in a build that
\* traps overflow; a build that does not trap wraps modulo 256.
RECURSIVE fold_weight(_, _, _)
fold_weight(targets, i, checks) ==
    IF i = 0 THEN Some(0)
    ELSE LET a == fold_weight(targets, i - 1, checks)
         IN  IF a = None THEN None
             ELSE IF targets[i].weight + a[1] > 255
                  THEN (IF checks THEN None
                        ELSE Some((targets[i].weight + a[1]) % 256))
                  ELSE Some(targets[i].weight + a[1])

\* The loop body without "if amount.is_zero() { continue; }".
loop_body_no_skip(targets, total_weight, denom, balance, i, st) ==
    IF ~st.ok THEN st
    ELSE IF i # Len(targets) /\ total_weight = 0
    THEN [st EXCEPT !.ok = FALSE]
    ELSE LET amount ==
                 IF i = Len(targets) THEN st.remaining
                 ELSE mul_floor(balance,
                                from_ratio(targets[i].weight, total_weight))
         IN  IF amount > st.remaining
             THEN [st EXCEPT !.ok = FALSE]
             ELSE [ok |-> TRUE,
                   remaining |-> st.remaining - amount,
                   sends |-> Append(st.sends,
                                    [to |-> targets[i].addr, denom |-> denom,
                                     amount |-> amount])]

\* One pass of the while loop of distribute_denom over target i, from the
\* loop state st = [ok, remaining, sends].
loop_body(targets, total_weight, denom, balance, i, st) ==
    IF ~st.ok THEN st
    ELSE IF i # Len(targets) /\ total_weight = 0
    THEN [st EXCEPT !.ok = FALSE]            \* from_ratio: zero denominator
    ELSE LET amount ==
                 IF i = Len(targets) THEN st.remaining
                 ELSE mul_floor(balance,
                                from_ratio(targets[i].weight, total_weight))
         IN  IF amount = 0 THEN st
             ELSE IF amount > st.remaining
             THEN [st EXCEPT !.ok = FALSE]   \* remaining -= amount underflows
             ELSE [ok |-> TRUE,
                   remaining |-> st.remaining - amount,
                   sends |-> Append(st.sends,
                                    [to |-> targets[i].addr, denom |-> denom,
                                     amount |-> amount])]

RECURSIVE distribute_loop(_, _, _, _, _, _)
distribute_loop(targets, total_weight, denom, balance, i, sends) ==
    IF i = 0 THEN [ok |-> TRUE, remaining |-> balance, sends |-> sends]
    ELSE loop_body(targets, total_weight, denom, balance, i,
                   distribute_loop(targets, total_weight, denom, balance,
                                   i - 1, sends))

\* distribute_denom(deps, env, config, sends, denom), given the balance the
\* bank query returns: sends with the transfers appended, or a panic.
distribute_denom(cfg, checks, sends, denom, balance) ==
    LET total_weight ==
            fold_weight(cfg.target_addresses, Len(cfg.target_addresses), checks)
    IN  IF total_weight = None THEN [ok |-> FALSE, sends |-> sends]
        ELSE IF balance = 0 THEN [ok |-> TRUE, sends |-> sends]
        ELSE LET r == distribute_loop(cfg.target_addresses, total_weight[1],
                                      denom, balance,
                                      Len(cfg.target_addresses), sends)
             IN  [ok |-> r.ok, sends |-> IF r.ok THEN r.sends ELSE sends]

\* for target in config.target_denoms { distribute_denom(..)? }: the first i
\* swept denoms, bal being the bank's balance of every denom.
RECURSIVE distribute_all(_, _, _, _)
distribute_all(cfg, checks, bal, i) ==
    IF i = 0 THEN [ok |-> TRUE, sends |-> << >>]
    ELSE LET r == distribute_all(cfg, checks, bal, i - 1)
         IN  IF ~r.ok THEN r
             ELSE distribute_denom(cfg, checks, r.sends, cfg.target_denoms[i],
                                   bal[cfg.target_denoms[i]])

\* The balances a sweep queries, in the order of config.target_denoms.
swept_balances(cfg, bal) ==
    [ i \in 1..Len(cfg.target_denoms) |-> bal[cfg.target_denoms[i]] ]

\* ----------------------------------------------------------- contract.rs

NoSnapshot == [last |-> None, selected |-> << >>]

\* ACTIONS with no entry.
EmptyLedger == [ d \in {} |-> None ]

\* A handler's result: the Response (events, the reply-always submessages,
\* the bank sends) or the error, with what the call was given and read:
\* info.sender, the argument of the message (the submessage's outcome for
\* reply), the denom of the Action that Action::next returned, the balance queried for it and
\* the balances queried by the sweep.
Result(op, sender, arg, err, events, submsgs, messages, sel, balance, swept) ==
    [op |-> op, sender |-> sender, arg |-> arg, err |-> err,
     events |-> events, submsgs |-> submsgs, messages |-> messages,
     selected |-> sel, balance |-> balance, swept |-> swept]

\* Ok(Response::default())
Ok(op, sender, arg) ==
    Result(op, sender, arg, "", << >>, << >>, << >>, None, None, << >>)

\* Err(ContractError::Unauthorized {})
Unauthorized(op, sender, arg) ==
    Result(op, sender, arg, "Unauthorized", << >>, << >>, << >>, None, None,
           << >>)

\* The window of the last MaxHist selections.
Record(hist, denom) ==
    LET h == Append(hist, denom)
    IN  IF Len(h) > MaxHist THEN Tail(h) ELSE h

\* ExecuteMsg::SetOwner(owner)
SetOwner(sender, owner) ==
    /\ phase = "idle"
    /\ IF sender # config.owner
       THEN /\ response' = Unauthorized("SetOwner", sender, Some(owner))
            /\ UNCHANGED config
       ELSE /\ config' = [config EXCEPT !.owner = owner]
            /\ response' = Ok("SetOwner", sender, Some(owner))
    /\ UNCHANGED << actions, last, overflow_checks, phase, snapshot, selected >>

\* SetAction without the owner check.
SetAction_unchecked(sender, action) ==
    /\ phase = "idle"
    /\ actions' = Action_set(actions, action)
    /\ selected' = << >>
    /\ response' = Ok("SetAction", sender, Some(action))
    /\ UNCHANGED << config, last, overflow_checks, phase, snapshot >>

\* ExecuteMsg::SetAction(action)
SetAction(sender, action) ==
    /\ phase = "idle"
    /\ IF sender # config.owner
       THEN /\ response' = Unauthorized("SetAction", sender, Some(action))
            /\ UNCHANGED << actions, selected >>
       ELSE /\ actions' = Action_set(actions, action)
            /\ selected' = << >>
            /\ response' = Ok("SetAction", sender, Some(action))
    /\ UNCHANGED << config, last, overflow_checks, phase, snapshot >>

\* UnsetAction that clears LAST when it names the removed Action.
UnsetAction_reset_cursor(sender, denom) ==
    /\ phase = "idle"
    /\ IF sender # config.owner
       THEN /\ response' = Unauthorized("UnsetAction", sender, Some(denom))
            /\ UNCHANGED << actions, selected, last >>
       ELSE /\ actions' = Action_unset(actions, denom)
            /\ selected' = << >>
            /\ last' = IF last = Some(denom) THEN None ELSE last
            /\ response' = Ok("UnsetAction", sender, Some(denom))
    /\ UNCHANGED << config, overflow_checks, phase, snapshot >>

\* ExecuteMsg::UnsetAction(denom)
UnsetAction(sender, denom) ==
    /\ phase = "idle"
    /\ IF sender # config.owner
       THEN /\ response' = Unauthorized("UnsetAction", sender, Some(denom))
            /\ UNCHANGED << actions, selected >>
       ELSE /\ actions' = Action_unset(actions, denom)
            /\ selected' = << >>
            /\ response' = Ok("UnsetAction", sender, Some(denom))
    /\ UNCHANGED << config, last, overflow_checks, phase, snapshot >>

\* SetExecutor that saves the config before it checks the sender.
SetExecutor_save_first(sender, executor) ==
    /\ phase = "idle"
    /\ config' = [config EXCEPT !.executor = executor]
    /\ response' = IF sender # config.owner
                   THEN Unauthorized("SetExecutor", sender, Some(executor))
                   ELSE Ok("SetExecutor", sender, Some(executor))
    /\ UNCHANGED << actions, last, overflow_checks, phase, snapshot, selected >>

\* ExecuteMsg::SetExecutor(executor)
SetExecutor(sender, executor) ==
    /\ phase = "idle"
    /\ IF sender # config.owner
       THEN /\ response' = Unauthorized("SetExecutor", sender, Some(executor))
            /\ UNCHANGED config
       ELSE /\ config' = [config EXCEPT !.executor = executor]
            /\ response' = Ok("SetExecutor", sender, Some(executor))
    /\ UNCHANGED << actions, last, overflow_checks, phase, snapshot, selected >>

\* get_action_msg: Action::next (which saves LAST), the balance query for
\* the Action's denom and Action::execute.  bal is the bank's balance of
\* every denom.
get_action_msg(acts, lst, bal) ==
    LET n == Action_next(acts, lst)
    IN  IF n.action = None
        THEN [err |-> "", action |-> None, msg |-> None, last |-> n.last,
              balance |-> None]
        ELSE LET action == n.action[1]
                 balance == [denom |-> action.denom,
                             amount |-> bal[action.denom]]
                 e == Action_execute(action, balance)
             IN  [err |-> e.err, action |-> n.action, msg |-> e.msg,
                  last |-> n.last, balance |-> Some(balance.amount)]

\* The Some((action, msg)) arm of Run without add_event.
run_action_no_event(sender, g) ==
    Result("Run", sender, None, "", << >>,
           << [msg |-> g.msg[1], id |-> 0, reply_on |-> "always"] >>,
           << >>, Some(g.action[1].denom), g.balance, << >>)

\* The Some((action, msg)) arm of Run whose event names the cursor as it was
\* before the selection.
run_action_stale_event(sender, g) ==
    Result("Run", sender, None, "", last,
           << [msg |-> g.msg[1], id |-> 0, reply_on |-> "always"] >>,
           << >>, Some(g.action[1].denom), g.balance, << >>)

\* The Some((action, msg)) arm of Run: one event, one reply-always
\* submessage.
run_action(sender, g) ==
    Result("Run", sender, None, "", << g.action[1].denom >>,
           << [msg |-> g.msg[1], id |-> 0, reply_on |-> "always"] >>,
           << >>, Some(g.action[1].denom), g.balance, << >>)

\* The None arm of Run: the sweep, whose panic fails the crank.
run_sweep(sender, g, cfg, checks, bal) ==
    LET d == distribute_all(cfg, checks, bal, Len(cfg.target_denoms))
        sel == IF g.action = None THEN None ELSE Some(g.action[1].denom)
    IN  Result("Run", sender, None, IF d.ok THEN "" ELSE "panic", << >>,
               << >>, IF d.ok THEN d.sends ELSE << >>, sel, g.balance,
               swept_balances(cfg, bal))

\* ExecuteMsg::Run {}
Run(sender, bal) ==
    /\ phase = "idle"
    /\ IF sender # config.executor
       THEN /\ response' = Unauthorized("Run", sender, None)
            /\ UNCHANGED << last, phase, snapshot, selected >>
       ELSE LET g == get_action_msg(actions, last, bal)
            IN  IF g.err # ""
                THEN /\ response' = Result("Run", sender, None, g.err, << >>,
                                           << >>, << >>, None, g.balance,
                                           << >>)
                     /\ UNCHANGED << last, phase, snapshot, selected >>
                ELSE IF g.msg # None
                THEN /\ response' = run_action(sender, g)
                     /\ last' = g.last
                     /\ selected' = Record(selected, g.action[1].denom)
                     /\ phase' = "reply"
                     /\ snapshot' = [last |-> last, selected |-> selected]
                ELSE /\ response' = run_sweep(sender, g, config,
                                                overflow_checks, bal)
                     /\ IF response'.err = ""
                        THEN /\ last' = g.last
                             /\ selected' = IF g.action = None THEN selected
                                            ELSE Record(selected,
                                                        g.action[1].denom)
                        ELSE UNCHANGED << last, selected >>
                     /\ UNCHANGED << phase, snapshot >>
    /\ UNCHANGED << config, actions, overflow_checks >>

\* reply that distributes the first configured denom only.
Reply_first_denom(msg, bal) ==
    /\ phase = "reply"
    /\ LET d == distribute_all(config, overflow_checks, bal, 1)
       IN  /\ response' = Result("reply", "", Some(msg),
                                 IF d.ok THEN "" ELSE "panic", << >>, << >>,
                                 IF d.ok THEN d.sends ELSE << >>,
                                 None, None, swept_balances(config, bal))
           /\ IF d.ok THEN UNCHANGED << last, selected >>
              ELSE /\ last' = snapshot.last
                   /\ selected' = snapshot.selected
    /\ phase' = "idle"
    /\ snapshot' = NoSnapshot
    /\ UNCHANGED << config, actions, overflow_checks >>

\* reply -> execute_reply, called by the host once the reply-always
\* submessage has resolved, with its outcome msg (which reply ignores): the
\* sweep against the balances of that moment.  Its panic fails the whole
\* crank, which takes the write of LAST back.
Reply(msg, bal) ==
    /\ phase = "reply"
    /\ LET d == distribute_all(config, overflow_checks, bal,
                               Len(config.target_denoms))
       IN  /\ response' = Result("reply", "", Some(msg),
                                 IF d.ok THEN "" ELSE "panic", << >>, << >>,
                                 IF d.ok THEN d.sends ELSE << >>,
                                 None, None, swept_balances(config, bal))
           /\ IF d.ok THEN UNCHANGED << last, selected >>
              ELSE /\ last' = snapshot.last
                   /\ selected' = snapshot.selected
    /\ phase' = "idle"
    /\ snapshot' = NoSnapshot
    /\ UNCHANGED << config, actions, overflow_checks >>

\* Action::execute applied to an Action and a Coin of any denom: the result
\* (the error, or the message if any) with the two inputs.
Decide(action, coin) ==
    /\ phase = "idle"
    /\ LET e == Action_execute(action, coin)
       IN  response' = Result("Action::execute", "",
                              Some([action |-> action, coin |-> coin]),
                              e.err, << >>, << >>, e.msg, None, None, << >>)
    /\ UNCHANGED << config, actions, last, overflow_checks, phase, snapshot,
                    selected >>

\* Action::all: every Action of ACTIONS, in ascending key order.
RECURSIVE Action_all(_)
Action_all(acts) ==
    IF DOMAIN acts = {} THEN << >>
    ELSE LET k == first_key(DOMAIN acts)
         IN  << Action_load(acts, k) >> \o Action_all(Action_unset(acts, k))

\* Action::last: LAST.may_load.
Action_last(lst) == lst

\* query(deps, env, msg): the response to QueryMsg::Config, ::Actions and
\* ::Status, read from the storage (cfg, acts, lst).
query(cfg, acts, lst, msg) ==
    CASE msg = "Config"  -> [config |-> cfg]
      [] msg = "Actions" -> [actions |-> Action_all(acts)]
      [] msg = "Status"  -> [last |-> Action_last(lst)]

QueryMsgs == {"Config", "Actions", "Status"}

\* A query call: it reads the storage through Deps, writes nothing and
\* returns the data.
Query(msg) ==
    /\ phase = "idle"
    /\ response' = [op |-> "query", sender |-> "", arg |-> Some(msg),
                    err |-> "", events |-> << >>, submsgs |-> << >>,
                    messages |-> << >>, selected |-> None, balance |-> None,
                    swept |-> << >>,
                    data |-> query(config, actions, last, msg)]
    /\ UNCHANGED << config, actions, last, overflow_checks, phase, snapshot,
                    selected >>

\* --------------------------------------------------------- specification

\* The target lists of up to n (address, weight) pairs; address i is the
\* i-th configured recipient.
TargetLists(n) ==
    UNION { { [ i \in 1..k |-> [addr |-> i, weight |-> w[i]] ] :
              w \in [1..k -> Weights] } : k \in 1..n }

\* The denoms whose balance a sweep queries.
swept_denoms(cfg) == { cfg.target_denoms[i] : i \in 1..Len(cfg.target_denoms) }

\* The balances (among amounts) the bank can report for the denoms in queried; the balance
\* of a denom no query asks for is left at zero.
BalanceInputs(queried, amounts) ==
    { [ d \in Denoms |-> IF d \in queried THEN f[d] ELSE 0 ] :
      f \in [queried -> amounts] }

\* The denoms Run queries: the denom of the Action that Action::next
\* returns and, when that Action yields no message, the swept denoms.
run_queries(acts, lst, cfg) ==
    LET k == next_key(acts, lst)
    IN  (IF k = None THEN {} ELSE { k[1] }) \cup swept_denoms(cfg)

\* instantiate: Config::from(msg) saved; no action, no cursor.  The config
\* holds the fields contract.rs reads (config.target_denoms,
\* config.target_addresses with u8 weights); state.rs still declares the
\* single target_denom / target_address of an earlier version.
Instantiate(msg) ==
    /\ config = [owner |-> msg.owner, executor |-> msg.executor,
                 target_denoms |-> msg.target_denoms,
                 target_addresses |-> msg.target_addresses]
    /\ actions = EmptyLedger
    /\ last = None
    /\ phase = "idle"
    /\ snapshot = NoSnapshot
    /\ response = Ok("instantiate", "", None)
    /\ selected = << >>

\* Weighted target lists given by their weights.
Targets(ws) == [ i \in 1..Len(ws) |-> [addr |-> i, weight |-> ws[i]] ]

\* ---- Spec: cranking.  The owner edits the ledger, the executor cranks,
\* the host delivers the reply.  One swept denom (also an action denom);
\* a target list that splits, and one whose weights sum past 255.
CrankTargets == { Targets(<< 1, 2 >>), Targets(<< 255, 1 >>) }
CrankActions ==
    [denom : Denoms, contract : {"fin"}, limit : {0, 2}, msg : {"swap"}]
CrankBalances == {0, 1, MaxBalance}

Init ==
    /\ overflow_checks \in BOOLEAN
    /\ \E t \in CrankTargets :
           Instantiate([owner |-> "owner", executor |-> "executor",
                        target_denoms |-> << 1 >>,
                        target_addresses |-> t])

Next ==
    \/ \E action \in CrankActions : SetAction(config.owner, action)
    \/ \E denom \in Denoms : UnsetAction(config.owner, denom)
    \/ \E bal \in BalanceInputs(run_queries(actions, last, config),
                                CrankBalances) :
           Run(config.executor, bal)
    \/ \E msg \in SubMsgResults,
          bal \in BalanceInputs(swept_denoms(config), CrankBalances) :
           Reply(msg, bal)

Spec == Init /\ [][Next]_vars

\* ---- SpecLive: Spec with the host's delivery of the reply.  The host
\* calls reply in the transaction of the crank that issued the reply-always
\* submessage, so a reply that is due is not postponed for ever.
ReplyDelivered ==
    \E msg \in SubMsgResults,
       bal \in BalanceInputs(swept_denoms(config), CrankBalances) :
        Reply(msg, bal)

SpecLive == Spec /\ WF_vars(ReplyDelivered)

\* ---- SpecGate: authorization.  Every identity calls every operation and
\* every query; the ledger holds at most the Action of one denom; the sweep
\* of one of the two target lists aborts.
GateTargets == { Targets(<< 1, 2 >>), Targets(<< 255, 1 >>) }
GateActions ==
    [denom : {1}, contract : Contracts, limit : {2}, msg : Msgs]
GateBalances == {0, MaxBalance}

InitGate ==
    /\ overflow_checks \in BOOLEAN
    /\ \E t \in GateTargets :
           Instantiate([owner |-> "owner", executor |-> "executor",
                        target_denoms |-> << 1 >>,
                        target_addresses |-> t])

NextGate ==
    \/ \E sender \in Addrs, owner \in Addrs : SetOwner(sender, owner)
    \/ \E sender \in Addrs, executor \in Addrs : SetExecutor(sender, executor)
    \/ \E sender \in Addrs, action \in GateActions : SetAction(sender, action)
    \/ \E sender \in Addrs, denom \in {1} : UnsetAction(sender, denom)
    \/ \E sender \in Addrs,
          bal \in BalanceInputs(run_queries(actions, last, config),
                                GateBalances) :
           Run(sender, bal)
    \/ \E msg \in SubMsgResults,
          bal \in BalanceInputs(swept_denoms(config), GateBalances) :
           Reply(msg, bal)
    \/ \E msg \in QueryMsgs : Query(msg)

SpecGate == InitGate /\ [][NextGate]_vars

\* ---- SpecDist: the distribution on every target list.  One crank on an
\* empty ledger (the sweep), for every list of up to MaxTargets weighted
\* targets and every balance of the two swept denoms.
InitDist ==
    /\ overflow_checks \in BOOLEAN
    /\ \E t \in TargetLists(MaxTargets) :
           Instantiate([owner |-> "owner", executor |-> "executor",
                        target_denoms |-> << NumDenoms, 1 >>,
                        target_addresses |-> t])

NextDist ==
    /\ response.op = "instantiate"
    /\ \E bal \in BalanceInputs(swept_denoms(config), Balances) :
           Run(config.executor, bal)

SpecDist == InitDist /\ [][NextDist]_vars

\* ---- SpecReply: the completion callback.  Two swept denoms; target
\* lists that split, that send everything to one target, whose weights sum
\* to zero and whose weights sum past 255; the Actions of two denoms (one of
\* them swept) with their own target contract and payload; every balance;
\* the external operation succeeds or fails.
ReplyTargets ==
    { Targets(<< 1 >>), Targets(<< 1, 2 >>), Targets(<< 1, 1 >>),
      Targets(<< 0 >>), Targets(<< 0, 0 >>), Targets(<< 255, 1 >>) }
ReplyActions ==
    { [denom |-> 1, contract |-> "fin", limit |-> 2, msg |-> "swap"],
      [denom |-> 2, contract |-> "bow", limit |-> 2, msg |-> "claim"] }

InitReply ==
    /\ overflow_checks \in BOOLEAN
    /\ \E t \in ReplyTargets :
           Instantiate([owner |-> "owner", executor |-> "executor",
                        target_denoms |-> << NumDenoms, 1 >>,
                        target_addresses |-> t])

NextReply ==
    \/ \E action \in ReplyActions : SetAction(config.owner, action)
    \/ \E bal \in BalanceInputs(run_queries(actions, last, config), Balances) :
           Run(config.executor, bal)
    \/ \E msg \in SubMsgResults,
          bal \in BalanceInputs(swept_denoms(config), Balances) :
           Reply(msg, bal)

SpecReply == InitReply /\ [][NextReply]_vars

\* ---- SpecExecute: the execution decision.  Action::execute on every
\* Action and every Coin (its own denom or another), next to the cranks
\* that call it through get_action_msg on a ledger of up to two Actions.
ExecuteActions ==
    [denom : Denoms, contract : {"fin"}, limit : {0, 2}, msg : {"swap"}]
ExecuteLedger ==
    [denom : {1, NumDenoms}, contract : {"fin"}, limit : {2}, msg : {"swap"}]
ExecuteCoins == [denom : Denoms, amount : {0, 1, MaxBalance}]

InitExecute ==
    /\ overflow_checks \in BOOLEAN
    /\ Instantiate([owner |-> "owner", executor |-> "executor",
                    target_denoms |-> << 1 >>,
                    target_addresses |-> Targets(<< 1, 2 >>)])

NextExecute ==
    \/ \E action \in ExecuteActions, coin \in ExecuteCoins :
           Decide(action, coin)
    \/ \E action \in ExecuteLedger : SetAction(config.owner, action)
    \/ \E bal \in BalanceInputs(run_queries(actions, last, config),
                                {0, MaxBalance}) :
           Run(config.executor, bal)
    \/ \E msg \in SubMsgResults,
          bal \in BalanceInputs(swept_denoms(config), {0, MaxBalance}) :
           Reply(msg, bal)

SpecExecute == InitExecute /\ [][NextExecute]_vars

\* ------------------------------------------------------------- claims

\* The position of key k among the keys in ascending order (1 = smallest).
Rank(keys, k) == Cardinality({ j \in keys : j <= k })

\* How often denom d occurs in h[i..j].
Visits(h, i, j, d) == Cardinality({ n \in i..j : h[n] = d })

RECURSIVE WeightSum(_, _)
WeightSum(targets, i) ==
    IF i = 0 THEN 0 ELSE targets[i].weight + WeightSum(targets, i - 1)

\* The sum of the amounts of the first n messages that send denom to a
\* recipient in tos.
RECURSIVE Sent(_, _, _, _)
Sent(msgs, n, denom, tos) ==
    IF n = 0 THEN 0
    ELSE Sent(msgs, n - 1, denom, tos)
         + (IF msgs[n].denom = denom /\ msgs[n].to \in tos
            THEN msgs[n].amount ELSE 0)

\* What the last sweep sent of denom to the recipients in tos.
SweepSent(denom, tos) == Sent(response.messages, Len(response.messages), denom, tos)

\* The last call was a crank that ran the sweep (nothing selected, or an
\* inert Action).
Swept == response.op = "Run" /\ response.sender = config.executor
         /\ response.submsgs = << >>

\* C2: distribution conservation.  For every balance >= 0 of a swept denom
\* and every non-empty target list with positive total weight, the amounts
\* of the transfers emitted by the distribution of that denom sum exactly
\* to the balance.
C2_Conservation ==
    LET targets == config.target_addresses
        n == Len(targets)
    IN  (Swept /\ n > 0 /\ WeightSum(targets, n) > 0) =>
          \A i \in 1..Len(config.target_denoms) :
             SweepSent(config.target_denoms[i], 1..n) = response.swept[i]

\* C3: for every non-zero balance and every target that is not the last in
\* configured order, the amount assigned to that target equals
\* floor(balance * weight / total_weight) in exact integer arithmetic.
C3_FloorShare ==
    LET targets == config.target_addresses
        n == Len(targets)
        total == WeightSum(targets, n)
    IN  (Swept /\ total > 0) =>
          \A i \in 1..Len(config.target_denoms) : \A j \in 1..(n - 1) :
             response.swept[i] # 0 =>
                SweepSent(config.target_denoms[i], {j})
                  = (response.swept[i] * targets[j].weight) \div total

\* C4: remainder placement.  In every distribution of a non-zero balance
\* over a non-empty target list with positive total weight, the last target
\* receives exactly the balance minus the amounts assigned to all earlier
\* targets, and never less than its own floor share.
C4_Remainder ==
    LET targets == config.target_addresses
        n == Len(targets)
        total == WeightSum(targets, n)
    IN  (Swept /\ n > 0 /\ total > 0) =>
          \A i \in 1..Len(config.target_denoms) :
             response.swept[i] # 0 =>
                /\ SweepSent(config.target_denoms[i], {n})
                     = response.swept[i]
                       - SweepSent(config.target_denoms[i], 1..(n - 1))
                /\ SweepSent(config.target_denoms[i], {n})
                     >= (response.swept[i] * targets[n].weight) \div total

\* C5: limit capping.  For every Action and every balance of its denom,
\* the external operation produced by the execution decision carries
\* exactly min(balance, limit) of that denom, never more than the limit nor
\* than the balance, and no operation is produced when that minimum is zero.
C5_LimitCap ==
    (response.op = "Run" /\ response.selected # None) =>
        LET d == response.selected[1]
            limit == actions[d].limit
            b == response.balance[1]
            capped == IF b <= limit THEN b ELSE limit
        IN  IF capped = 0 THEN response.submsgs = << >>
            ELSE /\ Len(response.submsgs) = 1
                 /\ response.submsgs[1].msg.denom = d
                 /\ response.submsgs[1].msg.amount = capped
                 /\ response.submsgs[1].msg.amount <= limit
                 /\ response.submsgs[1].msg.amount <= b

\* C5 witness: a crank whose operation is capped by the limit, below the
\* balance held.
C5_Witness ==
    /\ response.op = "Run"
    /\ response.balance = Some(MaxBalance)
    /\ Len(response.submsgs) = 1
    /\ response.submsgs[1].msg.amount = 2

OwnerOps == {"SetOwner", "SetExecutor", "SetAction", "UnsetAction"}

\* C6: role gating over any sequence of operations.  SetOwner, SetExecutor,
\* SetAction and UnsetAction succeed exactly when the caller is the owner
\* stored at the time of the call and are rejected as Unauthorized
\* otherwise; Run is rejected as Unauthorized exactly when the caller is not
\* the stored executor (so an owner who is not the executor cannot Run); a
\* successful SetOwner / SetExecutor stores the given identity, which the
\* later calls are gated by.
C6_RoleGating ==
    [][ /\ response'.op \in OwnerOps =>
              /\ (response'.err = "") <=> (response'.sender = config.owner)
              /\ response'.err \in {"", "Unauthorized"}
        /\ response'.op = "Run" =>
              (response'.err = "Unauthorized")
                 <=> (response'.sender # config.executor)
        /\ (response'.op = "SetOwner" /\ response'.err = "") =>
              config'.owner = response'.arg[1]
        /\ (response'.op = "SetExecutor" /\ response'.err = "") =>
              config'.executor = response'.arg[1]
      ]_vars

\* C6 witness: the owner was changed and the previous owner's SetAction is
\* rejected.
C6_Witness ==
    /\ config.owner = "other"
    /\ response.op = "SetAction"
    /\ response.sender = "owner"
    /\ response.err = "Unauthorized"

\* C7: an operation rejected as Unauthorized leaves the configuration, the
\* ledger and the cursor as they were and emits no external operation,
\* transfer or event.
C7_UnauthorizedNoEffect ==
    [][ response'.err = "Unauthorized" =>
           /\ config' = config
           /\ actions' = actions
           /\ last' = last
           /\ response'.events = << >>
           /\ response'.submsgs = << >>
           /\ response'.messages = << >>
      ]_vars

\* C7 witness: a Run by a non-executor is rejected while the ledger holds
\* an Action and the cursor is set.
C7_Witness ==
    /\ response.op = "Run"
    /\ response.err = "Unauthorized"
    /\ DOMAIN actions # {}
    /\ last # None

\* C8: single-shot handling of an inert action.  When Run selects an Action
\* whose min(balance, limit) is zero, the cursor is advanced and persisted
\* to that Action's denom, no external operation and no event are emitted,
\* no further Action is tried, and the sweep over the configured denoms is
\* performed in the same crank.
C8_InertSingleShot ==
    [][ ( /\ response'.op = "Run"
          /\ response'.selected # None
          /\ ( response'.balance[1] = 0
               \/ actions[response'.selected[1]].limit = 0 ) ) =>
           /\ last' = response'.selected
           /\ response'.submsgs = << >>
           /\ response'.events = << >>
           /\ response'.err = ""
           /\ Len(response'.swept) = Len(config.target_denoms)
      ]_vars

\* C9: Run on an empty ledger succeeds, selects nothing, leaves the cursor
\* unchanged, emits no event and no external operation, and performs the
\* sweep in the same crank.
C9_EmptyLedgerRun ==
    [][ ( /\ response'.op = "Run"
          /\ response'.sender = config.executor
          /\ DOMAIN actions = {} ) =>
           /\ response'.err = ""
           /\ response'.selected = None
           /\ last' = last
           /\ response'.events = << >>
           /\ response'.submsgs = << >>
           /\ Len(response'.swept) = Len(config.target_denoms)
      ]_vars

\* C10: at most one Action per crank.  Every successful Run response holds
\* either exactly one external operation, registered reply-always, with
\* exactly one revenue/run event and no transfer, or no external operation
\* and no event and only transfers of swept denoms to configured targets.
C10_OneActionPerCrank ==
    (response.op = "Run" /\ response.err = "") =>
        \/ /\ Len(response.submsgs) = 1
           /\ response.submsgs[1].reply_on = "always"
           /\ Len(response.events) = 1
           /\ response.messages = << >>
        \/ /\ response.submsgs = << >>
           /\ response.events = << >>
           /\ \A n \in 1..Len(response.messages) :
                 /\ response.messages[n].denom \in swept_denoms(config)
                 /\ response.messages[n].to
                       \in 1..Len(config.target_addresses)
                 /\ response.messages[n].amount > 0

\* C10 witness: a crank of the Action branch, awaiting its reply.
C10_Witness ==
    /\ response.op = "Run"
    /\ response.err = ""
    /\ Len(response.submsgs) = 1
    /\ Len(response.events) = 1
    /\ phase = "reply"

\* The bank balances that a sweep which queried the balances swept (in the
\* order of config.target_denoms) has seen.
SweptBank(cfg, swept) ==
    [ d \in Denoms |->
        IF d \in swept_denoms(cfg)
        THEN swept[CHOOSE i \in 1..Len(cfg.target_denoms) :
                      cfg.target_denoms[i] = d]
        ELSE 0 ]

\* What the Sweep branch of Run returns for the executor when no Action is
\* selected and the bank holds bal.
SweepBranch(cfg, checks, bal) ==
    run_sweep(cfg.executor, [action |-> None, balance |-> None], cfg, checks,
              bal)

\* C11: the completion callback returns, for the same configuration and
\* the same balances, what the Sweep branch of Run returns (the same
\* transfers in the same order, one distribution per configured denom, or
\* the same failure); it issues no external operation and no event, and it
\* selects no Action: the ledger is untouched and the cursor is not
\* advanced.
C11_ReplyIsSweep ==
    [][ response'.op = "reply" =>
           LET sweep == SweepBranch(config, overflow_checks,
                                    SweptBank(config, response'.swept))
           IN  /\ response'.messages = sweep.messages
               /\ response'.err = sweep.err
               /\ response'.submsgs = << >>
               /\ response'.events = << >>
               /\ response'.selected = None
               /\ actions' = actions
               /\ config' = config
               /\ response'.err = "" => last' = last
               /\ phase' = "idle"
      ]_vars

\* C11 witness: the callback, run after a failed external operation, has
\* distributed both configured denoms to two targets each.
C11_Witness ==
    /\ response.op = "reply"
    /\ response.arg = Some("err")
    /\ response.err = ""
    /\ Len(response.messages) = 4
    /\ response.messages[1].denom = NumDenoms
    /\ response.messages[3].denom = 1

\* C12: always-fire completion.  Every external operation issued by the
\* Action branch of a crank is followed by exactly one run of reply,
\* whether the operation succeeded or failed (the step after the Action
\* branch is the reply, and it closes the crank), and the distribution of
\* the configured denoms against the balances of that moment happens after
\* every Action-branch crank (the reply that is due comes to return Ok).
C12_AlwaysFire ==
    /\ [][ phase = "reply" => (response'.op = "reply" /\ phase' = "idle") ]_vars
    /\ (phase = "reply") ~> (response.op = "reply" /\ response.err = "")

\* What ListActions returns for a ledger.
ListActions(acts) == query(config, acts, last, "Actions").actions

IsOfDenom(a, d) == a.denom = d

\* A list of Actions without the Action of denom d.
Without(list, d) == SelectSeq(list, LAMBDA a : ~IsOfDenom(a, d))

\* A list of Actions in ascending denom order, with the Action a put at its
\* place in that order.
Inserted(list, a) ==
    SelectSeq(list, LAMBDA b : b.denom < a.denom)
      \o << a >> \o SelectSeq(list, LAMBDA b : b.denom > a.denom)

\* C13: ledger map semantics.  ListActions is empty after instantiation and
\* always in strictly ascending denom order (one Action per denom); a
\* successful SetAction(a) leaves the list as it was but for the Action of
\* a.denom, which is a itself (so the list holds, for each denom set and not
\* unset afterwards, the values of its most recent SetAction, and setting an
\* Action that is already listed changes nothing); a successful
\* UnsetAction(d) removes the Action of d and nothing else; UnsetAction of
\* an absent denom by the owner succeeds and changes nothing.
C13_LedgerMap ==
    /\ [](response.op = "instantiate" => ListActions(actions) = << >>)
    /\ [](\A i \in 1..(Len(ListActions(actions)) - 1) :
             ListActions(actions)[i].denom < ListActions(actions)[i + 1].denom)
    /\ [][ /\ (response'.op = "SetAction" /\ response'.err = "") =>
                 /\ ListActions(actions')
                      = Inserted(Without(ListActions(actions),
                                         response'.arg[1].denom),
                                 response'.arg[1])
                 /\ (\E i \in 1..Len(ListActions(actions)) :
                        ListActions(actions)[i] = response'.arg[1])
                      => ListActions(actions') = ListActions(actions)
           /\ (response'.op = "UnsetAction" /\ response'.err = "") =>
                 ListActions(actions')
                   = Without(ListActions(actions), response'.arg[1])
           /\ ( /\ response'.op = "UnsetAction"
                /\ response'.sender = config.owner
                /\ response'.arg[1] \notin DOMAIN actions ) =>
                 /\ response'.err = ""
                 /\ ListActions(actions') = ListActions(actions)
           /\ response'.op \notin {"SetAction", "UnsetAction"} =>
                 ListActions(actions') = ListActions(actions)
         ]_vars

\* C13 witness: three Actions are listed and the one in the middle has just
\* been set again with another limit than before.
C13_Witness ==
    /\ response.op = "SetAction"
    /\ response.err = ""
    /\ response.arg[1].denom = 2
    /\ Len(ListActions(actions)) = 3
    /\ ListActions(actions)[2].limit = 0
    /\ ListActions(actions)[1].limit = 2
    /\ last = Some(2)

\* The smallest of a non-empty set of denoms.
Smallest(keys) == CHOOSE k \in keys : \A j \in keys : k <= j

\* The denom that follows cursor k among keys (non-empty): the smallest
\* one strictly greater than k if there is one, otherwise the smallest of
\* all; k need not be among keys.
Successor(keys, k) ==
    IF k # None /\ (\E d \in keys : d > k[1])
    THEN Smallest({ d \in keys : d > k[1] })
    ELSE Smallest(keys)

\* C14: selection under ledger mutation.  For any ledger contents and any
\* cursor k (absent, present in the ledger, or naming an Action that was
\* removed, with Actions inserted below or above it), a Run by the executor
\* on a non-empty ledger selects the Action with the smallest denom strictly
\* greater than k if there is one, otherwise the smallest denom of the
\* ledger, and persists that denom as the new cursor, which is then a key
\* of the ledger.
C14_SelectionUnderMutation ==
    [][ ( /\ response'.op = "Run"
          /\ response'.sender = config.executor
          /\ DOMAIN actions # {} ) =>
           /\ response'.selected = Some(Successor(DOMAIN actions, last))
           /\ last' = response'.selected
           /\ last'[1] \in DOMAIN actions'
      ]_vars

\* The denom the next crank would select.
NextSelected(acts, lst) == Action_next(acts, lst).last

\* C15 as claimed: the cursor advance is persisted before the external
\* operation is issued and survives the outcome: after an Action-branch
\* crank for denom d the cursor is d and the next crank selects the
\* successor of d, whether the external operation succeeded, failed, or the
\* completion callback failed.
C15_CursorSurvives ==
    /\ [](phase = "reply" => last = response.selected)
    /\ [][ (phase = "reply" /\ response'.op = "reply") =>
              /\ last' = response.selected
              /\ NextSelected(actions', last')
                   = Some(Successor(DOMAIN actions, response.selected))
         ]_vars

\* C15 amended: the cursor advance is written before the external
\* operation is issued; after an Action-branch crank for denom d whose
\* completion callback returns Ok the cursor is d and the next crank selects
\* the successor of d (not d again, unless d is the only Action), whether
\* the external operation succeeded or failed; when the completion callback
\* fails the whole crank is discarded: the cursor is what it was before the
\* crank and the next crank selects d again.
C15_CursorSurvivesOperation ==
    /\ [](phase = "reply" =>
             /\ response.op = "Run"
             /\ response.selected # None
             /\ last = response.selected)
    /\ [][ (phase = "reply" /\ response'.op = "reply") =>
              /\ response'.arg \in { Some(r) : r \in SubMsgResults }
              /\ IF response'.err = ""
                 THEN /\ last' = response.selected
                      /\ NextSelected(actions', last')
                           = Some(Successor(DOMAIN actions,
                                            response.selected))
                      /\ Cardinality(DOMAIN actions) > 1 =>
                            NextSelected(actions', last') # response.selected
                 ELSE /\ last' = snapshot.last
                      /\ NextSelected(actions', last') = response.selected
         ]_vars

\* C15 witness: two Actions, the external operation for denom 1 has failed
\* and the callback has returned Ok with transfers; the cursor is denom 1.
C15_Witness ==
    /\ response.op = "reply"
    /\ response.arg = Some("err")
    /\ response.err = ""
    /\ response.messages # << >>
    /\ DOMAIN actions = {1, 2}
    /\ last = Some(1)

\* The cursor as of the last crank that was not discarded: while a reply is
\* due, the crank in progress has not yet taken effect.
CommittedCursor == IF phase = "reply" THEN snapshot.last ELSE last

\* C16: the cursor is written only by action selection.  SetOwner,
\* SetExecutor, SetAction, UnsetAction (also of the Action the cursor
\* names) and every query leave the cursor unchanged, rejected or not; the
\* completion callback writes nothing to it (after a callback that returns
\* Ok the cursor is the one the crank's selection wrote, a failing callback
\* discards the crank with its selection); each successful Run on a
\* non-empty ledger writes it once, with the selected denom; a Run that
\* fails or finds the ledger empty leaves it; once set by a crank that was
\* not discarded it is never cleared.
C16_CursorFrame ==
    [][ /\ response'.op \in OwnerOps \cup {"query"} => last' = last
        /\ response'.op = "reply" =>
              last' = IF response'.err = "" THEN last ELSE snapshot.last
        /\ (response'.op = "Run" /\ response'.err = ""
               /\ DOMAIN actions # {}) =>
              /\ response'.selected # None
              /\ last' = response'.selected
        /\ (response'.op = "Run"
               /\ (response'.err # "" \/ DOMAIN actions = {})) =>
              last' = last
        /\ CommittedCursor # None => CommittedCursor' # None
      ]_vars

\* C16 witness: the owner has unset the Action that the cursor names and
\* the cursor still names it.
C16_Witness ==
    /\ response.op = "UnsetAction"
    /\ response.err = ""
    /\ response.arg = last
    /\ last # None
    /\ DOMAIN actions = {}

\* What GetStatus reports.
GetStatus == query(config, actions, last, "Status").last

\* C17: whenever a Run emits the revenue/run event, the event's denom
\* attribute is the denom of the Action selected in that crank, which is the
\* cursor that GetStatus reports right after (after the Run, and after the
\* reply that completes the crank) and the denom of the funds attached to
\* the external operation, and the operation is directed at that Action's
\* target contract with that Action's payload.
C17_EventNamesAction ==
    /\ []( (response.op = "Run" /\ response.events # << >>) =>
             LET d == response.events[1]
                 op == response.submsgs[1].msg
             IN  /\ Len(response.events) = 1
                 /\ Len(response.submsgs) = 1
                 /\ response.selected = Some(d)
                 /\ d \in DOMAIN actions
                 /\ GetStatus = Some(d)
                 /\ op.denom = d
                 /\ op.contract_addr = actions[d].contract
                 /\ op.msg = actions[d].msg )
    /\ [][ ( /\ response.op = "Run"
             /\ response.events # << >>
             /\ response'.op = "reply"
             /\ response'.err = "" ) =>
              GetStatus' = Some(response.events[1])
         ]_vars

\* C17 witness: with the Actions of two denoms in the ledger, a Run has
\* emitted the event for the second one.
C17_Witness ==
    /\ response.op = "Run"
    /\ response.events = << 2 >>
    /\ DOMAIN actions = {1, 2}
    /\ response.submsgs[1].msg.contract_addr = "bow"
    /\ response.submsgs[1].msg.msg = "claim"
    /\ snapshot.last = Some(1)

\* C18: zero balance and zero amounts emit nothing.  The distribution of a
\* denom whose balance is zero emits no transfer, for any target list; every
\* transfer a distribution emits has a strictly positive amount (a target
\* whose share is zero, also the last target when nothing remains, gets
\* none); no target gets two transfers of one denom.
C18_NoZeroTransfer ==
    Swept =>
      /\ \A i \in 1..Len(config.target_denoms) :
            response.swept[i] = 0 =>
               \A n \in 1..Len(response.messages) :
                  response.messages[n].denom # config.target_denoms[i]
      /\ \A n \in 1..Len(response.messages) :
            response.messages[n].amount > 0
      /\ \A n \in 1..Len(response.messages) :
            \A m \in 1..Len(response.messages) :
               ( /\ response.messages[n].to = response.messages[m].to
                 /\ response.messages[n].denom = response.messages[m].denom )
                 => n = m

\* C18 witness: three targets; the first swept denom has no balance and
\* gets no transfer, the balance of the second goes to the first target
\* alone, the shares of the other two (the last one's remainder too) being
\* zero.
C18_Witness ==
    /\ Swept
    /\ response.err = ""
    /\ Len(config.target_addresses) = 3
    /\ response.swept = << 0, MaxBalance >>
    /\ response.messages
         = << [to |-> 1, denom |-> 1, amount |-> MaxBalance] >>

\* C19: the total weight used by a distribution is the arithmetic sum of the
\* weights of all configured targets, for every configurable target list
\* (also those whose u8 weights sum to more than 255); the summation
\* neither wraps nor aborts the crank.
C19_TotalWeight ==
    LET targets == config.target_addresses
        n == Len(targets)
    IN  Swept =>
          /\ fold_weight(targets, n, overflow_checks) # None
          /\ fold_weight(targets, n, overflow_checks)
               = Some(WeightSum(targets, n))
          /\ WeightSum(targets, n) > 255 => response.err = ""

\* C20: undefined split.  Whenever the total weight is zero while the
\* balance of a swept denom is non-zero and the target list is non-empty
\* (one target or several), the distribution of that denom emits no
\* transfer or fails the whole crank; no part of the balance is
\* transferred.
C20_UndefinedSplit ==
    LET targets == config.target_addresses
        n == Len(targets)
    IN  (Swept /\ n > 0 /\ WeightSum(targets, n) = 0) =>
          \A i \in 1..Len(config.target_denoms) :
             response.swept[i] # 0 =>
                \/ response.err # ""
                \/ SweepSent(config.target_denoms[i], 1..n) = 0

\* C21: the execution decision fails with Invalid Denom, producing no
\* operation, exactly when the denom of the supplied balance differs from
\* the Action's denom (it has no other error); a Run supplies the balance
\* queried for the selected Action's own denom, so no Run fails with
\* Invalid Denom, and the funds of the operation a Run issues are of the
\* selected denom.
C21_InvalidDenom ==
    /\ response.op = "Action::execute" =>
          LET action == response.arg[1].action
              coin == response.arg[1].coin
          IN  /\ (response.err = "Invalid Denom")
                    <=> (coin.denom # action.denom)
              /\ response.err \in {"", "Invalid Denom"}
              /\ response.err # "" => response.messages = None
    /\ response.op = "Run" =>
          /\ response.err # "Invalid Denom"
          /\ response.submsgs # << >> =>
                Some(response.submsgs[1].msg.denom) = response.selected

\* C21 witness: the decision on a Coin of another denom, with a positive
\* amount under a positive limit, has failed with Invalid Denom.
C21_Witness ==
    /\ response.op = "Action::execute"
    /\ response.err = "Invalid Denom"
    /\ response.arg[1].action.limit > 0
    /\ response.arg[1].coin.amount > 0
    /\ response.messages = None

====
